---- MODULE Spec2Model ----
(***************************************************************************)
(* Signing-request orchestration of the solana-mobile wallet core          *)
(* (src/src/main.rs, src/src/ffi.rs, src/src/mwa.rs): the bridge queue fed *)
(* by the JNI callbacks, the consumer loop of App, the tasks it spawns,    *)
(* the reactive resource, effect and buttons of Hero, and the MwaWallet.   *)
(***************************************************************************)
EXTENDS Integers, Sequences, FiniteSets, TLC

(* ------------------------------ bounds -------------------------------- *)
\* total number of JNI callbacks (bridge events) the host makes in a run
MaxEvents == 2
\* total number of UI actions (button clicks, navigations) in a run
MaxClicks == 2
\* total number of calls made on the MwaWallet in a run
MaxCalls == 3

(* ------------------------- program constants -------------------------- *)
\* [u8; 64]: the length a decoded signature must have
SIGNATURE_BYTES == 64
\* Pubkey::from_str accepts exactly 32 decoded bytes
PUBKEY_BYTES == 32

(* ------------------------------ values -------------------------------- *)
Keys == {"K1", "K2"}

\* "hello world" as UTF-8 bytes (main.rs:261)
HelloWorld == <<104, 101, 108, 108, 111, 32, 119, 111, 114, 108, 100>>

Ok(v) == [ok |-> TRUE, val |-> v]
Err(e) == [ok |-> FALSE, err |-> e]

\* bincode::serialize(&str): u64 little-endian length, then the bytes
BincodeSerializeStr(s) == <<Len(s), 0, 0, 0, 0, 0, 0, 0>> \o s

\* bincode::serialize(&VersionedTransaction): cannot fail for an in-memory tx
BincodeSerializeTx(tx) == Ok([binok |-> TRUE, tx |-> tx])

\* bincode::deserialize::<VersionedTransaction>(bytes)
BincodeDeserializeTx(bytes) ==
    IF bytes.binok THEN Ok(bytes.tx) ELSE Err("io error: unexpected end of file")

\* bs58 text: either characters outside the alphabet, or the encoding of bytes
Bs58Encode(bytes) == [b58ok |-> TRUE, bytes |-> bytes]

\* bs58::decode(text).into_vec()
Bs58Decode(text) ==
    IF text.b58ok THEN Ok(text.bytes) ELSE Err("provided string contained invalid character")

\* mutant: the length of the decoded bytes is not checked
PubkeyFromStr_AnyLen(text) ==
    LET dec == Bs58Decode(text) IN
    IF ~dec.ok THEN Err("Invalid") ELSE Ok(dec.val.key)

\* mutant: a text that does not parse gives the default key
PubkeyFromStr_OrDefault(text) ==
    LET dec == Bs58Decode(text) IN
    IF ~dec.ok \/ dec.val.len # PUBKEY_BYTES THEN Ok("K1") ELSE Ok(dec.val.key)

\* Pubkey::from_str: base58 text of exactly 32 bytes
PubkeyFromStr(text) ==
    LET dec == Bs58Decode(text) IN
    IF ~dec.ok THEN Err("Invalid")
    ELSE IF dec.val.len # PUBKEY_BYTES THEN Err("WrongSize")
    ELSE Ok(dec.val.key)

\* mutant: the decoded bytes are taken as the signature whatever their length
TryIntoSigArray_AnyLen(bytes) == Ok(bytes)

\* sig_bytes.try_into::<[u8; 64]>() mapped to the anyhow error of main.rs:166
TryIntoSigArray(bytes) ==
    IF bytes.len = SIGNATURE_BYTES THEN Ok(bytes)
    ELSE Err("could not parse vec as byte array")

\* Signature::verify(pubkey, message): an ed25519 signature verifies exactly
\* under the key that made it, over the bytes it was made over
SigVerify(sig, pubkey, message_bytes) ==
    sig.signer = pubkey /\ sig.over = message_bytes

\* the 64 bytes a key pair produces over a byte buffer
SignBytes(key, bytes) == [len |-> SIGNATURE_BYTES, signer |-> key, over |-> bytes]

\* a transaction: fee payer, recent blockhash, and who signed it ("" = nobody)
Tx(payer, hash, signer) == [payer |-> payer, blockhash |-> hash, signer |-> signer]


(* ------------------------------ state --------------------------------- *)
VARIABLES
    TX,                 \* static TX/RX: "unset" or "set" (the channel exists)
    JVM,                \* static JVM: "unset" or "set"
    WRY_ACTIVITY,       \* static WRY_ACTIVITY: 0 (unset) or the cached activity
    panic,              \* the message of the panic a call has ended in, "" for none
    queue,              \* the unbounded channel: events sent and not yet received
    consumer,           \* the use_future of App: "unstarted" or "listening"
    wallet_state,       \* Signal<WalletState>
    transaction_state,  \* Signal<TransactionState>
    message_state,      \* Signal<MessageState>
    usb_devices_state,  \* Signal<String>
    usb_status_state,   \* Signal<String>
    tasks,              \* the futures spawned by the consumer, not yet finished
    hero,               \* Hero: mounted, its effect flag and its transaction resource
    host,               \* requests dispatched to the host and not yet answered
    network,            \* the send_transaction calls the RPC endpoint has received
    hist,               \* history: counters, request ids, entries into Signed
    last,               \* history: the latest step of the consumer loop or of a task
    mwa                 \* the MwaWallet: its two cells, the calls in progress, the last return

ffiVars == <<TX, JVM, WRY_ACTIVITY, panic>>
usbVars == <<usb_devices_state, usb_status_state>>
sigVars == <<wallet_state, transaction_state, message_state>>
vars == <<TX, JVM, WRY_ACTIVITY, panic, queue, consumer, wallet_state, transaction_state,
          message_state, usb_devices_state, usb_status_state, tasks, hero, host,
          network, hist, last, mwa>>

(* enum values of main.rs:70-90 *)
WalletNone == [tag |-> "None"]
WalletPubkey(k) == [tag |-> "Pubkey", pubkey |-> k]

TxNone == [tag |-> "None"]
TxWaitingForSignature == [tag |-> "WaitingForSignature"]
TxSigned(tx) == [tag |-> "Signed", tx |-> tx]
TxError(e) == [tag |-> "Error", err |-> e]

MsgNone == [tag |-> "None"]
MsgWaitingForSignature(m) == [tag |-> "WaitingForSignature", message |-> m]
MsgSigned(m, sig) == [tag |-> "Signed", message |-> m, sig |-> sig]
MsgError(e) == [tag |-> "Error", err |-> e]

\* MsgFromKotlin: the variant, its String payload, and (history only, never read
\* by the program) the dispatched request the host was answering, 0 for none, the
\* latest request of that kind dispatched when the host made the call, and the
\* number of the send_msg_from_ffi call that carried it (set by that call)
Event(kind, payload, req, cur) ==
    [kind |-> kind, payload |-> payload, req |-> req, cur |-> cur, seq |-> 0]

\* what `last` records: the handler or task step, the task it spawned or ran, the outcome
Step(op, task, note) == [op |-> op, task |-> task, note |-> note]

(* --------------------------- host payloads ---------------------------- *)
Garbage == [b58ok |-> FALSE]

PubkeyText(k) == Bs58Encode([len |-> PUBKEY_BYTES, key |-> k])
ShortPubkeyText == Bs58Encode([len |-> PUBKEY_BYTES - 1, key |-> "K1"])

\* texts the host may pass to sendPublicKey
PubkeyTexts == {PubkeyText(k) : k \in Keys} \cup {Garbage, ShortPubkeyText}

\* the text a wallet returns for a transaction it signed
SignedTxText(tx, signer) ==
    Bs58Encode([binok |-> TRUE, tx |-> Tx(tx.payer, tx.blockhash, signer)])

TruncatedTxText == Bs58Encode([binok |-> FALSE])

\* texts the host may pass to sendSignedTransaction without having been asked
UnsolicitedTxTexts ==
    {Garbage, TruncatedTxText, SignedTxText(Tx("K1", 1, ""), "K2")}

SignatureText(key, bytes) == Bs58Encode(SignBytes(key, bytes))
ShortSignatureText ==
    Bs58Encode([len |-> SIGNATURE_BYTES - 1, signer |-> "K1",
                over |-> BincodeSerializeStr(HelloWorld)])

\* texts the host may pass to sendSignedMessage without having been asked
UnsolicitedSigTexts ==
    {Garbage, ShortSignatureText, SignatureText("K1", HelloWorld)}

\* what a JNI call does: it succeeds, or fails with a jni::errors::Error
JniOutcomes == {"ok", "err"}

\* texts the host may pass as a USB device list, as a permission or operation result
UsbDeviceLists == {"[]", "[/dev/bus/usb/001/002]"}
UsbResults == {"ok", "denied"}

\* operation names the host may pass to sendUsbOperationResult
UsbOperations == {"open", "close", "write", "read", "flush"}

\* reasons an RPC endpoint gives for rejecting a transaction
RejectReasons == {"blockhash expired"}

\* blockhashes get_latest_blockhash may return
Blockhashes == {1, 2}

(* ------------------------ MwaWallet values (mwa.rs) ------------------- *)
MwaDisconnected == [tag |-> "Disconnected"]
MwaConnected(k) == [tag |-> "Connected", pubkey |-> k]
MwaWaitingForSignature(id) == [tag |-> "WaitingForSignature", request_id |-> id]
MwaStates ==
    {MwaDisconnected} \cup {MwaConnected(k) : k \in Keys}
        \cup {MwaWaitingForSignature(id) : id \in {"r1"}}

\* a call on the wallet and what it returned; arg is "" for a call without one
MwaReturn(op, arg, ret) == [op |-> op, arg |-> arg, ret |-> ret]

\* MwaWallet::new(): state Disconnected, current_pubkey None
MwaNew ==
    [state |-> MwaDisconnected, current_pubkey |-> "None", running |-> {},
     calls |-> 0, done |-> MwaReturn("new", "", Ok("()")),
     prev |-> MwaReturn("new", "", Ok("()"))]

(* ------------------------------- Init --------------------------------- *)
\* main() has run init_ipc_channel, Kotlin has cached the JavaVM and the
\* activity, and dioxus::launch has rendered App and, under the router, Hero:
\* the effect and the resource of Hero are queued for their first run.
Fut(pc, payer) == [pc |-> pc, payer |-> payer]

HeroMounted == [mounted |-> TRUE, effect |-> TRUE, fut |-> Fut("scheduled", ""),
                transaction |-> [tag |-> "None"]]
HeroUnmounted == [mounted |-> FALSE, effect |-> FALSE, fut |-> Fut("idle", ""),
                  transaction |-> [tag |-> "None"]]

\* history at process start: the counters of calls, clicks, tasks and requests, the
\* latest request of each kind, the entries into Signed, the events handled (in
\* order, each with the number of events queued behind it), whether an event of
\* each kind was handled since the latest request of that kind, the runs of main,
\* the number of events already sent when the consumer began to listen
History ==
    [sent |-> 0, clicks |-> 0, nextTask |-> 1, nextReq |-> 1, txReq |-> 0, msgReq |-> 0,
     entered |-> <<>>, handled |-> <<>>, txSeen |-> FALSE, msgSeen |-> FALSE, mains |-> 0,
     listenAt |-> 0, button |-> "", dropped |-> {}, offered |-> {},
     usbCall |-> [n |-> 0, fn |-> "", operation |-> "", result |-> "", read |-> ""]]

Init ==
    /\ TX = "set"
    /\ JVM = "set"
    /\ WRY_ACTIVITY = 1
    /\ panic = ""
    /\ queue = <<>>
    /\ consumer = "unstarted"
    /\ wallet_state = WalletNone
    /\ transaction_state = TxNone
    /\ message_state = MsgNone
    /\ usb_devices_state = ""
    /\ usb_status_state = "Ready"
    /\ tasks = {}
    /\ hero = HeroMounted
    /\ host = {}
    /\ network = <<>>
    /\ hist = History
    /\ mwa = MwaNew
    /\ last = Step("Init", 0, "")


\* the process before main has run: no channel, nothing rendered
InitBoot ==
    /\ TX = "unset"
    /\ JVM = "set"
    /\ WRY_ACTIVITY = 1
    /\ panic = ""
    /\ queue = <<>>
    /\ consumer = "absent"
    /\ wallet_state = WalletNone
    /\ transaction_state = TxNone
    /\ message_state = MsgNone
    /\ usb_devices_state = ""
    /\ usb_status_state = "Ready"
    /\ tasks = {}
    /\ hero = HeroUnmounted
    /\ host = {}
    /\ network = <<>>
    /\ hist = History
    /\ mwa = MwaNew
    /\ last = Step("Init", 0, "")

\* a wallet is connected: the consumer has handled Identity(K1), the effect of Hero
\* has set the message to attest and its resource has built the transaction.
\* History counts from this state on
InitConnected ==
    /\ TX = "set"
    /\ JVM = "set"
    /\ WRY_ACTIVITY = 1
    /\ panic = ""
    /\ queue = <<>>
    /\ consumer = "listening"
    /\ wallet_state = WalletPubkey("K1")
    /\ transaction_state = TxNone
    /\ message_state = MsgWaitingForSignature(HelloWorld)
    /\ usb_devices_state = ""
    /\ usb_status_state = "Ready"
    /\ tasks = {}
    /\ hero = [mounted |-> TRUE, effect |-> FALSE, fut |-> Fut("idle", ""),
               transaction |-> [tag |-> "Ok", tx |-> Tx("K1", 1, "")]]
    /\ host = {}
    /\ network = <<>>
    /\ hist = History
    /\ mwa = MwaNew
    /\ last = Step("HandlePubkey", 0, "set")

\* App is rendered and Kotlin has cached neither the JavaVM nor the activity yet
InitFfi ==
    /\ TX = "set"
    /\ JVM = "unset"
    /\ WRY_ACTIVITY = 0
    /\ panic = ""
    /\ queue = <<>>
    /\ consumer = "unstarted"
    /\ wallet_state = WalletNone
    /\ transaction_state = TxNone
    /\ message_state = MsgNone
    /\ usb_devices_state = ""
    /\ usb_status_state = "Ready"
    /\ tasks = {}
    /\ hero = HeroMounted
    /\ host = {}
    /\ network = <<>>
    /\ hist = History
    /\ mwa = MwaNew
    /\ last = Step("Init", 0, "")

(* ------------------------- main (main.rs:34-98) ----------------------- *)
\* mutant: set replaces the value the cell holds
OnceCellSet_Overwrite(cell, v) == Ok(v)

\* OnceCell::set: Ok when the cell was empty, Err(v) when it holds a value, which
\* it keeps
OnceCellSet(cell, v) == IF cell = "unset" THEN Ok(v) ELSE Err(v)

\* init_ipc_channel: the cell after the call and the panic of `expect`, "" for none
init_ipc_channel(cell) ==
    LET r == OnceCellSet(cell, "set") IN
    IF r.ok THEN [TX |-> r.val, panic |-> ""]
    ELSE [TX |-> cell, panic |-> "initialization of ffi sender just once."]

\* main: init_ipc_channel, then dioxus::launch(App), which renders App and, under
\* the router, Hero. The host runs it when it creates the activity; a run after
\* the first one finds the cells of the process already set
main ==
    /\ panic = ""
    /\ LET r == init_ipc_channel(TX) IN
        /\ TX' = r.TX
        /\ panic' = r.panic
        /\ IF r.panic = ""
           THEN /\ queue' = <<>>
                /\ consumer' = "unstarted"
                /\ hero' = HeroMounted
           ELSE UNCHANGED <<queue, consumer, hero>>
    /\ hist' = [hist EXCEPT !.mains = @ + 1]
    /\ last' = last
    /\ UNCHANGED <<JVM, WRY_ACTIVITY, sigVars, usbVars, mwa, tasks, host, network>>

(* ------------------- bridge ingress (main.rs, ffi.rs) ----------------- *)
\* mutant: the channel holds one event, try_send on a full channel fails
send_msg_from_ffi_Bounded(q, msg) == IF TX = "set" /\ Len(q) < 1 THEN Append(q, msg) ELSE q

\* mutant: the event is put in front of those already waiting
send_msg_from_ffi_Front(q, msg) == IF TX = "set" THEN <<msg>> \o q ELSE q

\* mutant: the event is kept for the consumer although no channel exists yet
send_msg_from_ffi_Always(q, msg) == Append(q, msg)

\* send_msg_from_ffi: try_send on the unbounded channel, if it exists
send_msg_from_ffi(q, msg) == IF TX = "set" THEN Append(q, msg) ELSE q

\* the end of every JNI callback: one call of send_msg_from_ffi
Produce(msg) ==
    /\ hist.sent < MaxEvents
    /\ queue' = send_msg_from_ffi(queue, [msg EXCEPT !.seq = hist.sent + 1])
    /\ hist' = [hist EXCEPT !.sent = @ + 1,
                            !.dropped = IF TX = "set" THEN @ ELSE @ \cup {hist.sent + 1}]
    /\ last' = last

\* Java_dev_dioxus_main_Ipc_sendPublicKey
Java_sendPublicKey ==
    \E text \in PubkeyTexts :
        /\ Produce(Event("Pubkey", text, 0, 0))
        /\ UNCHANGED <<ffiVars, consumer, sigVars, usbVars, mwa, tasks, hero, host, network>>

\* Java_dev_dioxus_main_Ipc_sendSignedTransaction, called by the wallet with the
\* transaction of a dispatched request, signed by the fee payer
Java_sendSignedTransaction ==
    \E r \in host :
        /\ r.kind = "tx"
        /\ Produce(Event("SignedTransaction", SignedTxText(r.bytes.tx, r.bytes.tx.payer),
                         r.id, hist.txReq))
        /\ host' = host \ {r}
        /\ UNCHANGED <<ffiVars, consumer, sigVars, usbVars, mwa, tasks, hero, network>>

\* Java_dev_dioxus_main_Ipc_sendSignedTransaction, called with any other text
Java_sendSignedTransactionUnsolicited ==
    \E text \in UnsolicitedTxTexts :
        /\ Produce(Event("SignedTransaction", text, 0, hist.txReq))
        /\ UNCHANGED <<ffiVars, consumer, sigVars, usbVars, mwa, tasks, hero, host, network>>

\* Java_dev_dioxus_main_Ipc_sendSignedMessage, called by the wallet with its
\* signature (by the account it holds) over the bytes of a dispatched request
Java_sendSignedMessage ==
    \E r \in host, k \in Keys :
        /\ r.kind = "msg"
        /\ Produce(Event("SignedMessage", SignatureText(k, r.bytes.data), r.id, hist.msgReq))
        /\ host' = host \ {r}
        /\ UNCHANGED <<ffiVars, consumer, sigVars, usbVars, mwa, tasks, hero, network>>

\* Java_dev_dioxus_main_Ipc_sendSignedMessage, called with any other text
Java_sendSignedMessageUnsolicited ==
    \E text \in UnsolicitedSigTexts :
        /\ Produce(Event("SignedMessage", text, 0, hist.msgReq))
        /\ UNCHANGED <<ffiVars, consumer, sigVars, usbVars, mwa, tasks, hero, host, network>>

\* a USB callback: env.get_string on each argument; when one cannot be read the
\* callback logs and returns, otherwise it ends in one call of send_msg_from_ffi.
\* History: the number of the call, the callback, its arguments, the get_string outcome
UsbCallback(fn, operation, result, read, msg) ==
    /\ hist.usbCall.n < MaxEvents
    /\ hist.sent < MaxEvents
    /\ IF read = "ok"
       THEN /\ queue' = send_msg_from_ffi(queue, [msg EXCEPT !.seq = hist.sent + 1])
            /\ hist' = [hist EXCEPT !.sent = @ + 1,
                                    !.dropped = IF TX = "set" THEN @
                                                ELSE @ \cup {hist.sent + 1},
                                    !.usbCall = [n |-> @.n + 1, fn |-> fn,
                                                 operation |-> operation,
                                                 result |-> result, read |-> read]]
       ELSE /\ queue' = queue
            /\ hist' = [hist EXCEPT !.usbCall = [n |-> @.n + 1, fn |-> fn,
                                                 operation |-> operation,
                                                 result |-> result, read |-> read]]
    /\ last' = last
    /\ UNCHANGED <<ffiVars, consumer, sigVars, usbVars, mwa, tasks, hero, host, network>>

\* Java_dev_dioxus_main_Ipc_sendUsbDeviceList
Java_sendUsbDeviceList ==
    \E list \in UsbDeviceLists, read \in JniOutcomes :
        UsbCallback("sendUsbDeviceList", "", list, read, Event("UsbDeviceList", list, 0, 0))

\* Java_dev_dioxus_main_Ipc_sendUsbPermissionResult
Java_sendUsbPermissionResult ==
    \E result \in UsbResults, read \in JniOutcomes :
        UsbCallback("sendUsbPermissionResult", "", result, read,
                    Event("UsbPermissionResult", result, 0, 0))

\* mutant: the result of a read is reported as the result of a write
OperationMessage_ReadAsWrite(operation, result) ==
    IF operation = "open" THEN Event("UsbDeviceOpened", result, 0, 0)
    ELSE IF operation = "close" THEN Event("UsbDeviceClosed", result, 0, 0)
    ELSE IF operation \in {"write", "read"} THEN Event("UsbDataWritten", result, 0, 0)
    ELSE Event("UsbError", "Unknown operation: " \o operation \o " -> " \o result, 0, 0)

\* the match on operation_str of ffi.rs:201-207
OperationMessage(operation, result) ==
    IF operation = "open" THEN Event("UsbDeviceOpened", result, 0, 0)
    ELSE IF operation = "close" THEN Event("UsbDeviceClosed", result, 0, 0)
    ELSE IF operation = "write" THEN Event("UsbDataWritten", result, 0, 0)
    ELSE IF operation = "read" THEN Event("UsbDataRead", result, 0, 0)
    ELSE Event("UsbError", "Unknown operation: " \o operation \o " -> " \o result, 0, 0)

\* Java_dev_dioxus_main_Ipc_sendUsbOperationResult
Java_sendUsbOperationResult ==
    \E operation \in UsbOperations, result \in UsbResults, read \in JniOutcomes :
        UsbCallback("sendUsbOperationResult", operation, result, read,
                    OperationMessage(operation, result))

(* ------------------------ consumer loop of App ------------------------ *)
\* use_future: RX.get().cloned() succeeded, the loop awaits rx.recv()
ConsumerStart ==
    /\ consumer = "unstarted"
    /\ TX = "set"
    /\ consumer' = "listening"
    /\ hist' = [hist EXCEPT !.listenAt = hist.sent]
    /\ last' = last
    /\ UNCHANGED <<ffiVars, queue, sigVars, usbVars, mwa, tasks, hero, host, network>>

\* mutant: the loop awaits the work it spawned before it receives again
Receiving_AfterTasks(kind) ==
    /\ consumer = "listening"
    /\ tasks = {}
    /\ queue # <<>>
    /\ Head(queue).kind = kind
    /\ queue' = Tail(queue)

\* rx.recv() returns the oldest event, of the given variant
Receiving(kind) ==
    /\ consumer = "listening"
    /\ queue # <<>>
    /\ Head(queue).kind = kind
    /\ queue' = Tail(queue)

\* the payload of an event is not what its variant is to carry: not base58, or not
\* the bytes of a public key, of a transaction, of a signature
Malformed(ev) ==
    /\ ev.kind \in {"Pubkey", "SignedTransaction", "SignedMessage"}
    /\ \/ ~ev.payload.b58ok
       \/ ev.kind = "Pubkey" /\ ev.payload.bytes.len # PUBKEY_BYTES
       \/ ev.kind = "SignedTransaction" /\ ~ev.payload.bytes.binok
       \/ ev.kind = "SignedMessage" /\ ev.payload.bytes.len # SIGNATURE_BYTES

\* history: the consumer has taken the head of the queue
Handled(h) ==
    [h EXCEPT !.handled = Append(@, [seq |-> Head(queue).seq, waiting |-> Len(queue) - 1,
                                     bad |-> Malformed(Head(queue)),
                                     kind |-> Head(queue).kind, req |-> Head(queue).req])]

\* mutant: an arm that fails leaves the loop, as a `?` on its result would
LoopAfter_StopOnError(ok) == IF ok THEN "listening" ELSE "ended"

\* the end of a match arm: `while let` goes back to rx.recv(), whatever the arm did
LoopAfter(ok) == "listening"

\* a write to wallet_state re-runs what Hero subscribed: its effect and its resource
HeroNotified(h) ==
    IF h.mounted THEN [h EXCEPT !.effect = TRUE, !.fut = Fut("scheduled", "")] ELSE h

\* MsgFromKotlin::Pubkey(base58)
HandlePubkey ==
    /\ Receiving("Pubkey")
    /\ LET res == PubkeyFromStr(Head(queue).payload) IN
        /\ IF res.ok
           THEN /\ wallet_state' = WalletPubkey(res.val)
                /\ hero' = HeroNotified(hero)
                /\ last' = Step("HandlePubkey", 0, "set")
           ELSE /\ UNCHANGED <<wallet_state, hero>>
                /\ last' = Step("HandlePubkey", 0, "ignored")
        /\ consumer' = LoopAfter(res.ok)
    /\ hist' = Handled(hist)
    /\ UNCHANGED <<ffiVars, transaction_state, message_state, usbVars, mwa,
                   tasks, host, network>>

\* mutant: a failed deserialisation falls back to the default transaction
DecodeTransaction_OrDefault(base58) ==
    LET bytes == Bs58Decode(base58) IN
    IF ~bytes.ok THEN bytes
    ELSE IF bytes.val.binok THEN Ok(bytes.val.tx)
    ELSE Ok(Tx("", 0, ""))

\* the closure of main.rs:129-134
DecodeTransaction(base58) ==
    LET bytes == Bs58Decode(base58) IN
    IF ~bytes.ok THEN bytes ELSE BincodeDeserializeTx(bytes.val)

\* the task spawned at main.rs:137, before its first poll. req and cur are history,
\* never read by the program: those of the event
TxTask(id, tx, req, cur) ==
    [id |-> id, kind |-> "tx", pc |-> "start", tx |-> tx, req |-> req, cur |-> cur]

\* what the Ok arm of main.rs:135-150 does in the handler itself: spawn
SpawnSubmission(id, tx, req, cur) == {TxTask(id, tx, req, cur)}

\* MsgFromKotlin::SignedTransaction(base58)
HandleSignedTransaction ==
    /\ Receiving("SignedTransaction")
    /\ LET ev == Head(queue)
           res == DecodeTransaction(ev.payload) IN
        /\ IF res.ok
           THEN /\ tasks' = tasks \cup SpawnSubmission(hist.nextTask, res.val, ev.req, ev.cur)
                /\ hist' = Handled([hist EXCEPT !.nextTask = @ + 1, !.txSeen = TRUE])
                /\ UNCHANGED transaction_state
                /\ last' = Step("HandleSignedTransaction", hist.nextTask, "spawned")
           ELSE /\ transaction_state' = TxError(res.err)
                /\ hist' = Handled([hist EXCEPT !.txSeen = TRUE])
                /\ UNCHANGED tasks
                /\ last' = Step("HandleSignedTransaction", 0, "decode_failed")
        /\ consumer' = LoopAfter(res.ok)
    /\ UNCHANGED <<ffiVars, wallet_state, message_state, usbVars, mwa, hero,
                   host, network>>

\* the if-let of main.rs:157-160
MessageAvailable(ms, ws) == ms.tag = "WaitingForSignature" /\ ws.tag = "Pubkey"

\* mutant: an unawaited signature is dropped and the slot left as it was
NoMessageAvailable_Keep(ms) == ms

\* the else branch of the if-let, main.rs:188-191
NoMessageAvailable(ms) == MsgError("no message available")

\* the task spawned at main.rs:162, before its first poll
MsgTask(id, signature, message, pubkey, req) ==
    [id |-> id, kind |-> "msg", pc |-> "start", signature |-> signature,
     message |-> message, pubkey |-> pubkey, req |-> req]

\* MsgFromKotlin::SignedMessage(signature)
HandleSignedMessage ==
    /\ Receiving("SignedMessage")
    /\ LET ev == Head(queue) IN
        /\ IF MessageAvailable(message_state, wallet_state)
           THEN /\ tasks' = tasks \cup {MsgTask(hist.nextTask, ev.payload,
                                                message_state.message,
                                                wallet_state.pubkey, ev.req)}
                /\ hist' = Handled([hist EXCEPT !.nextTask = @ + 1, !.msgSeen = TRUE])
                /\ UNCHANGED message_state
                /\ last' = Step("HandleSignedMessage", hist.nextTask, "spawned")
           ELSE /\ message_state' = NoMessageAvailable(message_state)
                /\ hist' = Handled([hist EXCEPT !.msgSeen = TRUE])
                /\ UNCHANGED tasks
                /\ last' = Step("HandleSignedMessage", 0, "no_message")
        /\ consumer' = LoopAfter(MessageAvailable(message_state, wallet_state))
    /\ UNCHANGED <<ffiVars, wallet_state, transaction_state, usbVars, mwa, hero,
                   host, network>>


\* the variants that only set the status text, each with the prefix of its format!
UsbStatusPrefix ==
    [UsbPermissionResult |-> "Permission: ", UsbDeviceOpened |-> "Device opened: ",
     UsbDeviceClosed |-> "Device closed: ", UsbDataWritten |-> "Data written: ",
     UsbDataRead |-> "Data read: ", UsbError |-> "Error: "]

\* mutant: a device list sets the status and leaves the list as it was
UsbDevicesAfterList_Keep(devices, devices_json) == devices

\* usb_devices_state after a UsbDeviceList event (main.rs:196)
UsbDevicesAfterList(devices, devices_json) == devices_json

\* MsgFromKotlin::UsbDeviceList(devices_json)
HandleUsbDeviceList ==
    /\ Receiving("UsbDeviceList")
    /\ usb_devices_state' = UsbDevicesAfterList(usb_devices_state, Head(queue).payload)
    /\ usb_status_state' = "Device list updated"
    /\ consumer' = LoopAfter(TRUE)
    /\ hist' = Handled(hist)
    /\ last' = Step("HandleUsbDeviceList", 0, "set")
    /\ UNCHANGED <<ffiVars, sigVars, mwa, tasks, hero, host, network>>

\* MsgFromKotlin::UsbPermissionResult(result) .. MsgFromKotlin::UsbError(error)
HandleUsbStatus ==
    \E kind \in DOMAIN UsbStatusPrefix :
        /\ Receiving(kind)
        /\ usb_status_state' = UsbStatusPrefix[kind] \o Head(queue).payload
        /\ consumer' = LoopAfter(TRUE)
        /\ hist' = Handled(hist)
        /\ last' = Step("HandleUsbStatus", 0, kind)
        /\ UNCHANGED <<ffiVars, sigVars, usb_devices_state, mwa, tasks, hero, host, network>>

(* ---------------- submission task (main.rs:137-149) ------------------- *)
\* first poll: transaction_state.set(Signed(tx.clone())), then the 3 s sleep
TxTaskStart ==
    \E t \in tasks :
        /\ t.kind = "tx" /\ t.pc = "start"
        /\ transaction_state' = TxSigned(t.tx)
        /\ tasks' = (tasks \ {t}) \cup {[t EXCEPT !.pc = "sleeping"]}
        /\ hist' = [hist EXCEPT !.entered = Append(@, [task |-> t.id, tx |-> t.tx])]
        /\ last' = Step("TxTaskStart", t.id, "signed")
        /\ UNCHANGED <<ffiVars, queue, consumer, wallet_state, message_state, usbVars, mwa,
                       hero, host, network>>

\* the sleep is over: client.send_transaction(&tx) is called
TxTaskSend ==
    \E t \in tasks :
        /\ t.kind = "tx" /\ t.pc = "sleeping"
        /\ network' = Append(network, [task |-> t.id, tx |-> t.tx])
        /\ tasks' = (tasks \ {t}) \cup {[t EXCEPT !.pc = "sending"]}
        /\ last' = Step("TxTaskSend", t.id, "sent")
        /\ UNCHANGED <<ffiVars, queue, consumer, sigVars, usbVars, mwa, hero, host, hist>>

\* mutant: the rejection is swallowed
AfterSubmit_AlwaysNone(res) == TxNone

\* mutant: the state is reset only when the submission failed
AfterSubmit_KeepOnSuccess(res) == IF res.ok THEN transaction_state ELSE TxError(res.err)

\* what the task does once send_transaction has returned (main.rs:143-148)
AfterSubmit(res) == IF res.ok THEN TxNone ELSE TxError(res.err)

\* mutant: a rejected transaction is submitted again after another sleep
TaskAfterSubmit_Retry(t, res) ==
    IF res.ok THEN {} ELSE {[t EXCEPT !.pc = "sleeping"]}

\* what becomes of the task once send_transaction has returned: it ends
TaskAfterSubmit(t, res) == {}

\* send_transaction returns: the endpoint accepted or rejected the transaction
TxTaskResult ==
    \E t \in tasks, res \in {Ok("signature")} \cup {Err(r) : r \in RejectReasons} :
        /\ t.kind = "tx" /\ t.pc = "sending"
        /\ transaction_state' = AfterSubmit(res)
        /\ tasks' = (tasks \ {t}) \cup TaskAfterSubmit(t, res)
        /\ last' = Step("TxTaskResult", t.id,
                        IF res.ok THEN "accepted" ELSE res.err)
        /\ UNCHANGED <<ffiVars, queue, consumer, wallet_state, message_state, usbVars, mwa,
                       hero, host, network, hist>>

(* ----------- message verification task (main.rs:162-187) -------------- *)
\* main.rs:164-169: the signature text to the [u8; 64] array
DecodeSignature(signature) ==
    LET bytes == Bs58Decode(signature) IN
    IF ~bytes.ok THEN bytes ELSE TryIntoSigArray(bytes.val)

\* mutant: the signature is checked against the message, not against the key
Verified_AnyKey(sig, pubkey, message) ==
    sig.over = BincodeSerializeStr(message)

\* mutant: the signature is checked over message.as_bytes(), not over the bytes
\* that were dispatched for signing
Verified_RawMessage(sig, pubkey, message) ==
    SigVerify(sig, pubkey, message)

\* main.rs:170-174: is the signature one by pubkey over the serialised message
Verified(sig, pubkey, message) ==
    SigVerify(sig, pubkey, BincodeSerializeStr(message))

\* main.rs:179: the state a verified signature is recorded as
SignedMessageState(message, sig_bytes) == MsgSigned(message, sig_bytes)

\* mutant: a signature that does not verify is reported
AfterVerifyFailed_Error(ms) == MsgError("signature verification failed")

\* main.rs:175-181 with verified false: no set, the closure returns Ok(())
AfterVerifyFailed(ms) == ms

\* first poll: decode, verify and, if verified, start the 3 s sleep
MsgTaskStart ==
    \E t \in tasks :
        /\ t.kind = "msg" /\ t.pc = "start"
        /\ LET sig == DecodeSignature(t.signature) IN
            IF ~sig.ok
            THEN /\ message_state' = MsgError(sig.err)
                 /\ tasks' = tasks \ {t}
                 /\ last' = Step("MsgTaskStart", t.id, "decode_failed")
            ELSE IF Verified(sig.val, t.pubkey, t.message)
            THEN /\ UNCHANGED message_state
                 /\ tasks' = (tasks \ {t}) \cup {[t EXCEPT !.pc = "sleeping"]}
                 /\ last' = Step("MsgTaskStart", t.id, "verified")
            ELSE /\ message_state' = AfterVerifyFailed(message_state)
                 /\ tasks' = tasks \ {t}
                 /\ last' = Step("MsgTaskStart", t.id, "verify_failed")
        /\ UNCHANGED <<ffiVars, queue, consumer, wallet_state, transaction_state,
                       usbVars, mwa, hero, host, network, hist>>

\* the sleep is over: message_state.set(Signed(message, sig_bytes.to_vec()))
MsgTaskFinish ==
    \E t \in tasks :
        /\ t.kind = "msg" /\ t.pc = "sleeping"
        /\ message_state' = SignedMessageState(t.message, DecodeSignature(t.signature).val)
        /\ tasks' = tasks \ {t}
        /\ last' = Step("MsgTaskFinish", t.id, "signed")
        /\ UNCHANGED <<ffiVars, queue, consumer, wallet_state, transaction_state,
                       usbVars, mwa, hero, host, network, hist>>


(* ------------------------ Hero (main.rs:236-331) ---------------------- *)
\* mutant: with no identity the transaction is built for a default payer
ResourceStart_DefaultPayer ==
    /\ hero.mounted /\ hero.fut.pc = "scheduled"
    /\ hero' = IF wallet_state.tag = "Pubkey"
               THEN [hero EXCEPT !.fut = Fut("fetching", wallet_state.pubkey)]
               ELSE [hero EXCEPT !.fut = Fut("fetching", "K1")]
    /\ last' = last
    /\ UNCHANGED <<ffiVars, queue, consumer, sigVars, usbVars, mwa, tasks, host, network, hist>>

\* use_resource, first poll of the future: it reads wallet_state
ResourceStart ==
    /\ hero.mounted /\ hero.fut.pc = "scheduled"
    /\ hero' = IF wallet_state.tag = "Pubkey"
               THEN [hero EXCEPT !.fut = Fut("fetching", wallet_state.pubkey)]
               ELSE [hero EXCEPT !.fut = Fut("idle", ""),
                                 !.transaction = [tag |-> "Err", err |-> "wallet disconnected"]]
    /\ last' = last
    /\ UNCHANGED <<ffiVars, queue, consumer, sigVars, usbVars, mwa, tasks, host, network, hist>>

\* use_resource: get_latest_blockhash returns a hash or an error
ResourceFinish ==
    \E res \in {Ok(h) : h \in Blockhashes} \cup {Err("rpc error")} :
        /\ hero.mounted /\ hero.fut.pc = "fetching"
        /\ hero' = [hero EXCEPT
                      !.fut = Fut("idle", ""),
                      !.transaction =
                          IF res.ok
                          THEN [tag |-> "Ok", tx |-> Tx(hero.fut.payer, res.val, "")]
                          ELSE [tag |-> "Err", err |-> res.err]]
        /\ last' = last
        /\ UNCHANGED <<ffiVars, queue, consumer, sigVars, usbVars, mwa, tasks, host, network, hist>>

\* mutant: the effect leaves a state that is Signed or an Error of the consumer
EffectRun_KeepResult ==
    /\ hero.mounted /\ hero.effect
    /\ message_state' = IF message_state.tag \in {"Signed", "Error"} THEN message_state
                        ELSE IF wallet_state.tag = "Pubkey"
                        THEN MsgWaitingForSignature(HelloWorld)
                        ELSE MsgError("wallet disconnected")
    /\ hero' = [hero EXCEPT !.effect = FALSE]
    /\ last' = last
    /\ UNCHANGED <<ffiVars, queue, consumer, wallet_state, transaction_state, usbVars, mwa,
                   tasks, host, network, hist>>

\* use_effect of main.rs:258-266
EffectRun ==
    /\ hero.mounted /\ hero.effect
    /\ message_state' = IF wallet_state.tag = "Pubkey"
                        THEN MsgWaitingForSignature(HelloWorld)
                        ELSE MsgError("wallet disconnected")
    /\ hero' = [hero EXCEPT !.effect = FALSE]
    /\ last' = last
    /\ UNCHANGED <<ffiVars, queue, consumer, wallet_state, transaction_state, usbVars, mwa,
                   tasks, host, network, hist>>

\* the initiate_*_from_dioxus functions of ffi.rs:425-501: the text returned, whether
\* the host method was called, and whether with_env panicked. jni is what the JNI
\* call does: "ok", or "err" (it fails before the host method runs)
InitiateFromDioxus(jni) ==
    IF WRY_ACTIVITY = 0
    THEN [status |-> "Error: WryActivity reference not available", called |-> FALSE,
          fault |-> FALSE]
    ELSE IF JVM # "set"
    THEN [status |-> "", called |-> FALSE, fault |-> TRUE]
    ELSE IF jni = "ok"
    THEN [status |-> "dispatched", called |-> TRUE, fault |-> FALSE]
    ELSE [status |-> "JNI call failed", called |-> FALSE, fault |-> FALSE]

\* with_env: `expect` on a JavaVM that was never cached panics in the caller
PanicAfter(d) == IF d.fault THEN "JavaVM not initialised" ELSE panic

\* a call of a host method: the request (history), the method, its argument, and
\* the activity passed, the one WRY_ACTIVITY holds
HostRequest(id, kind, bytes) ==
    [id |-> id, kind |-> kind, bytes |-> bytes, activity |-> WRY_ACTIVITY]

Clicking ==
    /\ hero.mounted
    /\ hist.clicks < MaxClicks

\* "connect wallet", shown while no wallet is connected (main.rs:268-280)
ClickConnect ==
    \E jni \in JniOutcomes :
        /\ Clicking
        /\ wallet_state.tag = "None"
        /\ LET d == InitiateFromDioxus(jni) IN
            /\ panic' = PanicAfter(d)
            /\ host' = IF d.called THEN host \cup {HostRequest(0, "session", [data |-> <<>>])}
                       ELSE host
        /\ hist' = [hist EXCEPT !.clicks = @ + 1, !.button = "connect wallet"]
        /\ last' = last
        /\ UNCHANGED <<TX, JVM, WRY_ACTIVITY, queue, consumer, sigVars, usbVars, mwa, tasks,
                       hero, network>>

\* mutant: the request is dispatched and the state is left as it was
ClickSignTransaction_NoWaiting ==
    \E jni \in JniOutcomes :
        /\ Clicking
        /\ hero.transaction.tag = "Ok"
        /\ LET d == InitiateFromDioxus(jni)
               ser == BincodeSerializeTx(hero.transaction.tx) IN
            /\ panic' = PanicAfter(d)
            /\ host' = IF d.called
                       THEN host \cup {HostRequest(hist.nextReq, "tx", ser.val)}
                       ELSE host
        /\ hist' = [hist EXCEPT !.clicks = @ + 1, !.button = "sign transaction",
                                              !.nextReq = @ + 1,
                                !.txReq = hist.nextReq, !.txSeen = FALSE]
        /\ last' = last
        /\ UNCHANGED <<TX, JVM, WRY_ACTIVITY, queue, consumer, sigVars, usbVars, mwa, tasks,
                       hero, network>>

\* "sign transaction" (main.rs:283-299)
ClickSignTransaction ==
    \E jni \in JniOutcomes :
        /\ Clicking
        /\ LET d == InitiateFromDioxus(jni) IN
            IF hero.transaction.tag = "Ok"
            THEN LET ser == BincodeSerializeTx(hero.transaction.tx) IN
                 IF ser.ok
                 THEN /\ panic' = PanicAfter(d)
                      /\ transaction_state' = TxWaitingForSignature
                      /\ host' = IF d.called
                                 THEN host \cup {HostRequest(hist.nextReq, "tx", ser.val)}
                                 ELSE host
                      /\ hist' = [hist EXCEPT !.clicks = @ + 1, !.button = "sign transaction",
                                              !.nextReq = @ + 1,
                                              !.txReq = hist.nextReq, !.txSeen = FALSE]
                      /\ last' = last
                 ELSE /\ transaction_state' = TxError(ser.err)
                      /\ hist' = [hist EXCEPT !.clicks = @ + 1, !.button = "sign transaction"]
                      /\ last' = last
                      /\ UNCHANGED <<host, panic>>
            ELSE /\ hist' = [hist EXCEPT !.clicks = @ + 1, !.button = "sign transaction"]
                 /\ last' = last
                 /\ UNCHANGED <<transaction_state, host, panic>>
        /\ UNCHANGED <<TX, JVM, WRY_ACTIVITY, queue, consumer, wallet_state, message_state,
                       usbVars, mwa, tasks, hero, network>>

\* "sign message" (main.rs:310-320)
ClickSignMessage ==
    \E jni \in JniOutcomes :
        /\ Clicking
        /\ LET d == InitiateFromDioxus(jni) IN
            IF message_state.tag = "WaitingForSignature"
            THEN /\ panic' = PanicAfter(d)
                 /\ host' = IF d.called
                            THEN host \cup {HostRequest(hist.nextReq, "msg",
                                     [data |-> BincodeSerializeStr(message_state.message)])}
                            ELSE host
                 /\ hist' = [hist EXCEPT !.clicks = @ + 1, !.button = "sign message",
                                         !.nextReq = @ + 1,
                                         !.msgReq = hist.nextReq, !.msgSeen = FALSE]
                 /\ last' = last
            ELSE /\ hist' = [hist EXCEPT !.clicks = @ + 1, !.button = "sign message"]
                 /\ last' = last
                 /\ UNCHANGED <<host, panic>>
        /\ UNCHANGED <<TX, JVM, WRY_ACTIVITY, queue, consumer, sigVars, usbVars, mwa, tasks,
                       hero, network>>

\* the dispatch functions the buttons of UsbManager call (main.rs:389-487)
UsbDispatchFunctions ==
    {"get_usb_devices_from_dioxus", "request_usb_permission_from_dioxus",
     "open_usb_device_from_dioxus", "write_usb_data_from_dioxus"}

\* a button of UsbManager, on a route without Hero: the text returned is logged
UsbClick ==
    \E fn \in UsbDispatchFunctions, jni \in JniOutcomes :
        /\ ~hero.mounted
        /\ hist.clicks < MaxClicks
        /\ LET d == InitiateFromDioxus(jni) IN
            /\ panic' = PanicAfter(d)
            /\ host' = IF d.called THEN host \cup {HostRequest(0, fn, [data |-> <<>>])}
                       ELSE host
        /\ hist' = [hist EXCEPT !.clicks = @ + 1, !.button = "usb"]
        /\ last' = last
        /\ UNCHANGED <<TX, JVM, WRY_ACTIVITY, queue, consumer, sigVars, usbVars, mwa, tasks,
                       hero, network>>

\* the activity objects Kotlin may pass to cacheActivityInstance
Activities == {1, 2}

\* Java_dev_dioxus_main_Ipc_cacheVm: JVM.set(vm).ok() when get_java_vm succeeds
Java_cacheVm ==
    \E res \in JniOutcomes :
        /\ JVM' = IF res = "ok" /\ JVM = "unset" THEN "set" ELSE JVM
        /\ last' = last
        /\ UNCHANGED <<TX, WRY_ACTIVITY, panic, queue, consumer, sigVars, usbVars, mwa, tasks,
                       hero, host, network, hist>>

\* mutant: the latest activity replaces the cached one
Java_cacheActivityInstance_Replace ==
    \E a \in Activities, res \in JniOutcomes :
        /\ WRY_ACTIVITY' = IF res = "ok" THEN a ELSE WRY_ACTIVITY
        /\ hist' = [hist EXCEPT !.offered = IF res = "ok" THEN @ \cup {a} ELSE @]
        /\ last' = last
        /\ UNCHANGED <<TX, JVM, panic, queue, consumer, sigVars, usbVars, mwa, tasks,
                       hero, host, network>>

\* Java_dev_dioxus_main_WryActivity_cacheActivityInstance: WRY_ACTIVITY.set of the
\* new global reference, dropped when the cell is set already. History: the
\* activities a global reference was made for
Java_cacheActivityInstance ==
    \E a \in Activities, res \in JniOutcomes :
        /\ WRY_ACTIVITY' = IF res = "ok" /\ WRY_ACTIVITY = 0 THEN a ELSE WRY_ACTIVITY
        /\ hist' = [hist EXCEPT !.offered = IF res = "ok" THEN @ \cup {a} ELSE @]
        /\ last' = last
        /\ UNCHANGED <<TX, JVM, panic, queue, consumer, sigVars, usbVars, mwa, tasks,
                       hero, host, network>>

\* a Link of Navbar to a route without Hero (main.rs:566-578): Hero is dropped
NavigateAway ==
    /\ Clicking
    /\ hero' = HeroUnmounted
    /\ hist' = [hist EXCEPT !.clicks = @ + 1, !.button = "link"]
    /\ last' = last
    /\ UNCHANGED <<ffiVars, queue, consumer, sigVars, usbVars, mwa, tasks, host, network>>

\* the Link of Navbar to Route::Home: Hero is mounted anew
NavigateHome ==
    /\ ~hero.mounted
    /\ hist.clicks < MaxClicks
    /\ hero' = HeroMounted
    /\ hist' = [hist EXCEPT !.clicks = @ + 1, !.button = "link"]
    /\ last' = last
    /\ UNCHANGED <<ffiVars, queue, consumer, sigVars, usbVars, mwa, tasks, host, network>>

(* ---------------------- MwaWallet (mwa.rs:24-153) --------------------- *)
\* the wallet is created and Kotlin has cached the JavaVM, not yet the activity
InitMwa ==
    /\ TX = "set"
    /\ JVM = "set"
    /\ WRY_ACTIVITY = 0
    /\ panic = ""
    /\ queue = <<>>
    /\ consumer = "unstarted"
    /\ wallet_state = WalletNone
    /\ transaction_state = TxNone
    /\ message_state = MsgNone
    /\ usb_devices_state = ""
    /\ usb_status_state = "Ready"
    /\ tasks = {}
    /\ hero = HeroMounted
    /\ host = {}
    /\ network = <<>>
    /\ hist = History
    /\ mwa = MwaNew
    /\ last = Step("Init", 0, "")

MwaCalling == mwa.calls < MaxCalls

\* what is left alone by a call that touches the wallet only
MwaFrame ==
    UNCHANGED <<ffiVars, queue, consumer, sigVars, usbVars, tasks, hero, host, network,
                hist, last>>

\* mutant: the key is read from the current_pubkey cell
get_public_key_FromCache(m) ==
    IF m.current_pubkey # "None" THEN Ok(PubkeyText(m.current_pubkey))
    ELSE Err("MWA wallet not connected")

\* MwaWallet::get_public_key / MwaSigner::get_public_key on the wallet cells m
get_public_key(m) ==
    IF m.state.tag = "Connected" THEN Ok(PubkeyText(m.state.pubkey))
    ELSE Err("MWA wallet not connected")

\* MwaWallet::is_connected
is_connected(m) == m.state.tag = "Connected"

\* MwaWallet::is_available / MwaSigner::is_available
is_available(m) == is_connected(m)

\* set_connected, first lock scope: current_pubkey = Some(pubkey)
set_connected_1 ==
    \E pubkey \in Keys :
        /\ MwaCalling
        /\ mwa' = [mwa EXCEPT !.current_pubkey = pubkey,
                              !.calls = @ + 1,
                              !.running = @ \cup {[id |-> mwa.calls + 1,
                                                   op |-> "set_connected",
                                                   pubkey |-> pubkey]}]
        /\ MwaFrame

\* mutant: the state cell is left as it is
set_connected_2_KeepState ==
    \E c \in mwa.running :
        /\ c.op = "set_connected"
        /\ mwa' = [mwa EXCEPT !.running = @ \ {c},
                              !.prev = mwa.done,
                              !.done = MwaReturn("set_connected", c.pubkey, Ok("()"))]
        /\ MwaFrame

\* set_connected, second lock scope: state = Connected(pubkey)
set_connected_2 ==
    \E c \in mwa.running :
        /\ c.op = "set_connected"
        /\ mwa' = [mwa EXCEPT !.state = MwaConnected(c.pubkey),
                              !.running = @ \ {c},
                              !.prev = mwa.done,
                              !.done = MwaReturn("set_connected", c.pubkey, Ok("()"))]
        /\ MwaFrame

\* disconnect, first lock scope: state = Disconnected
disconnect_1 ==
    /\ MwaCalling
    /\ mwa' = [mwa EXCEPT !.state = MwaDisconnected,
                          !.calls = @ + 1,
                          !.running = @ \cup {[id |-> mwa.calls + 1, op |-> "disconnect",
                                               pubkey |-> ""]}]
    /\ MwaFrame

\* disconnect, second lock scope: current_pubkey = None
disconnect_2 ==
    \E c \in mwa.running :
        /\ c.op = "disconnect"
        /\ mwa' = [mwa EXCEPT !.current_pubkey = "None",
                              !.running = @ \ {c},
                              !.prev = mwa.done,
                              !.done = MwaReturn("disconnect", "", Ok("()"))]
        /\ MwaFrame

\* a call of get_public_key on the wallet or through MwaSigner
MwaGetPublicKey ==
    /\ MwaCalling
    /\ mwa' = [mwa EXCEPT !.calls = @ + 1,
                          !.prev = mwa.done,
                          !.done = MwaReturn("get_public_key", "", get_public_key(mwa))]
    /\ MwaFrame

\* a call of is_available on the wallet or through MwaSigner
MwaIsAvailable ==
    /\ MwaCalling
    /\ mwa' = [mwa EXCEPT !.calls = @ + 1,
                          !.prev = mwa.done,
                          !.done = MwaReturn("is_available", "", is_available(mwa))]
    /\ MwaFrame

\* MwaWallet::sign_message / MwaSigner::sign_message: the text returned by
\* initiate_sign_message_from_dioxus is logged, the placeholder error is returned
sign_message ==
    \E jni \in JniOutcomes :
        /\ MwaCalling
        /\ LET d == InitiateFromDioxus(jni) IN
            /\ panic' = PanicAfter(d)
            /\ host' = IF d.called
                       THEN host \cup {HostRequest(mwa.calls + 1, "msg", [data |-> HelloWorld])}
                       ELSE host
        /\ mwa' = [mwa EXCEPT !.calls = @ + 1,
                              !.prev = mwa.done,
                              !.done = MwaReturn("sign_message", "",
                                                 Err("MWA signing not yet implemented"))]
        /\ UNCHANGED <<TX, JVM, WRY_ACTIVITY, queue, consumer, sigVars, usbVars, tasks,
                       hero, network, hist, last>>

\* MwaWallet::connect: the text returned by initiate_mwa_session_from_dioxus is logged
connect ==
    \E jni \in JniOutcomes :
        /\ MwaCalling
        /\ LET d == InitiateFromDioxus(jni) IN
            /\ panic' = PanicAfter(d)
            /\ host' = IF d.called
                       THEN host \cup {HostRequest(mwa.calls + 1, "session", [data |-> <<>>])}
                       ELSE host
        /\ mwa' = [mwa EXCEPT !.calls = @ + 1,
                              !.prev = mwa.done,
                              !.done = MwaReturn("connect", "", Ok("()"))]
        /\ UNCHANGED <<TX, JVM, WRY_ACTIVITY, queue, consumer, sigVars, usbVars, tasks,
                       hero, network, hist, last>>

\* a call that begins
MwaCall ==
    \/ set_connected_1
    \/ disconnect_1
    \/ MwaGetPublicKey
    \/ MwaIsAvailable
    \/ sign_message
    \/ connect

\* a call in progress that goes on
MwaStep ==
    \/ set_connected_2
    \/ disconnect_2

\* the wallet used by tasks that may interleave at every lock().await
NextMwa ==
    \/ Java_cacheActivityInstance
    \/ MwaCall
    \/ MwaStep

SpecMwa == InitMwa /\ [][NextMwa]_vars

\* the wallet used by one caller that awaits every call before the next
NextMwaSeq ==
    \/ Java_cacheActivityInstance
    \/ (mwa.running = {} /\ MwaCall)
    \/ MwaStep

SpecMwaSeq == InitMwa /\ [][NextMwaSeq]_vars

(* --------------------------- specification ---------------------------- *)
Next ==
    \/ Java_sendPublicKey
    \/ Java_sendSignedTransaction
    \/ Java_sendSignedTransactionUnsolicited
    \/ Java_sendSignedMessage
    \/ Java_sendSignedMessageUnsolicited
    \/ ConsumerStart
    \/ HandlePubkey
    \/ HandleSignedTransaction
    \/ HandleSignedMessage
    \/ TxTaskStart
    \/ TxTaskSend
    \/ TxTaskResult
    \/ MsgTaskStart
    \/ MsgTaskFinish
    \/ ResourceStart
    \/ ResourceFinish
    \/ EffectRun
    \/ ClickConnect
    \/ ClickSignTransaction
    \/ ClickSignMessage
    \/ NavigateAway
    \/ NavigateHome

Spec == Init /\ [][Next]_vars

\* the transaction slot alone: no message-signing traffic
NextTx ==
    \/ Java_sendPublicKey
    \/ Java_sendSignedTransaction
    \/ Java_sendSignedTransactionUnsolicited
    \/ ConsumerStart
    \/ HandlePubkey
    \/ HandleSignedTransaction
    \/ TxTaskStart
    \/ TxTaskSend
    \/ TxTaskResult
    \/ ResourceStart
    \/ ResourceFinish
    \/ EffectRun
    \/ ClickSignTransaction
    \/ NavigateAway
    \/ NavigateHome

SpecTx == Init /\ [][NextTx]_vars

\* the message slot alone: no transaction-signing traffic
NextMsg ==
    \/ Java_sendPublicKey
    \/ Java_sendSignedMessage
    \/ Java_sendSignedMessageUnsolicited
    \/ ConsumerStart
    \/ HandlePubkey
    \/ HandleSignedMessage
    \/ MsgTaskStart
    \/ MsgTaskFinish
    \/ ResourceStart
    \/ ResourceFinish
    \/ EffectRun
    \/ ClickSignMessage
    \/ NavigateAway
    \/ NavigateHome

SpecMsg == Init /\ [][NextMsg]_vars


\* from process start: main, then the message slot
NextBoot ==
    \/ main
    \/ Java_sendPublicKey
    \/ Java_sendSignedMessage
    \/ Java_sendSignedMessageUnsolicited
    \/ ConsumerStart
    \/ HandlePubkey
    \/ HandleSignedMessage
    \/ MsgTaskStart
    \/ MsgTaskFinish
    \/ ResourceStart
    \/ ResourceFinish
    \/ EffectRun
    \/ ClickSignMessage

SpecBoot == InitBoot /\ [][NextBoot]_vars

\* from process start: main, then the device (USB) events, next to the identity
\* events and the effect of Hero
NextUsb ==
    \/ main
    \/ Java_sendUsbDeviceList
    \/ Java_sendUsbPermissionResult
    \/ Java_sendUsbOperationResult
    \/ Java_sendPublicKey
    \/ ConsumerStart
    \/ HandlePubkey
    \/ HandleUsbDeviceList
    \/ HandleUsbStatus
    \/ EffectRun

SpecUsb == InitBoot /\ [][NextUsb]_vars

\* the message slot, from a connected wallet on
NextMsgConnected ==
    \/ Java_sendPublicKey
    \/ Java_sendSignedMessage
    \/ Java_sendSignedMessageUnsolicited
    \/ HandlePubkey
    \/ HandleSignedMessage
    \/ MsgTaskStart
    \/ MsgTaskFinish
    \/ ResourceStart
    \/ ResourceFinish
    \/ EffectRun
    \/ ClickSignMessage
    \/ NavigateAway
    \/ NavigateHome

SpecMsgConnected == InitConnected /\ [][NextMsgConnected]_vars

\* the dispatches to the host and the caching of its references
NextFfi ==
    \/ Java_cacheVm
    \/ Java_cacheActivityInstance
    \/ Java_sendPublicKey
    \/ ConsumerStart
    \/ HandlePubkey
    \/ ResourceStart
    \/ ResourceFinish
    \/ EffectRun
    \/ ClickConnect
    \/ ClickSignTransaction
    \/ ClickSignMessage
    \/ UsbClick
    \/ NavigateAway
    \/ NavigateHome

SpecFfi == InitFfi /\ [][NextFfi]_vars

\* tokio wakes a sleeping task and an RPC call returns: every spawned task
\* takes its next step
SpecTxLive ==
    SpecTx /\ WF_vars(TxTaskStart) /\ WF_vars(TxTaskSend) /\ WF_vars(TxTaskResult)

SpecMsgLive == SpecMsg /\ WF_vars(MsgTaskStart) /\ WF_vars(MsgTaskFinish)

\* App is the root component and is never dropped: the runtime polls its
\* use_future whenever the channel wakes it, so the consumer starts and takes
\* every event that is at the head of the queue
SpecBridgeLive ==
    Spec /\ WF_vars(ConsumerStart) /\ WF_vars(HandlePubkey)
         /\ WF_vars(HandleSignedTransaction) /\ WF_vars(HandleSignedMessage)

(* ------------------------------ claims -------------------------------- *)
\* task t takes a step (it changes or ends)
Steps(t) == t \in tasks /\ t \notin tasks'

\* the decoded signature of a message task is 64 bytes long and does not verify
\* over the serialised message under the identity captured by the handler
Forged(t) ==
    /\ t.kind = "msg"
    /\ Bs58Decode(t.signature).ok
    /\ Bs58Decode(t.signature).val.len = SIGNATURE_BYTES
    /\ ~SigVerify(Bs58Decode(t.signature).val, t.pubkey, BincodeSerializeStr(t.message))

\* C1: no step of a task that carries a well-formed 64-byte signature which does
\* not verify (over the awaited message, under the identity current when the
\* event was handled) turns MessageState into Signed.
C1_ForgedNeverSigned ==
    [][\A t \in tasks :
          (Forged(t) /\ Steps(t)) =>
              ~(message_state'.tag = "Signed" /\ message_state' # message_state)]_vars

\* C1 witness: a task found its signature not to verify and ended, and the message
\* is still awaiting its signature.
C1_Witness ==
    /\ last.op = "MsgTaskStart"
    /\ last.note = "verify_failed"
    /\ message_state = MsgWaitingForSignature(HelloWorld)


\* the event a submission task came from answered a request that a later dispatch
\* had already superseded when the host sent the answer
Late(t) == t.kind = "tx" /\ t.req # 0 /\ t.req # t.cur

\* the latest dispatched transaction request is at the signer, unanswered, and
\* TransactionState is as its dispatch left it
LatestAwaited ==
    /\ transaction_state = TxWaitingForSignature
    /\ \E r \in host : r.kind = "tx" /\ r.id = hist.txReq

\* C2: with request A superseded by request B, no step of the task spawned for a
\* SignedTransaction event that answers A and arrived after B's dispatch
\* changes TransactionState away from B's WaitingForSignature or submits A.
C2_LateAnswerIgnored ==
    [][\A t \in tasks :
          (Late(t) /\ Steps(t) /\ LatestAwaited) =>
              (transaction_state' = TxWaitingForSignature /\ network' = network)]_vars

\* a request newer than the one task t answers was dispatched (and still awaits
\* its signature), or a newer SignedTransaction event was handled (and
\* TransactionState is the Signed it produced)
Superseded(t) ==
    \/ hist.txReq # t.req /\ LatestAwaited
    \/ \E i \in DOMAIN hist.entered :
          /\ hist.entered[i].task > t.id
          /\ transaction_state = TxSigned(hist.entered[i].tx)

\* C3: when the submission spawned for the signed transaction of a request
\* completes after a newer request was dispatched or a newer SignedTransaction
\* event was handled, the completion leaves TransactionState as the newer request
\* made it.
C3_StaleCompletionIgnored ==
    [][\A t \in tasks :
          (t.kind = "tx" /\ t.req # 0 /\ t.pc = "sending" /\ Steps(t) /\ Superseded(t)) =>
              transaction_state' = transaction_state]_vars

\* the requests of one kind dispatched to the signer and not yet answered; the
\* program has no step that supersedes one, and applies every answer
Outstanding(kind) == {r \in host : r.kind = kind}

\* C4: at most one transaction-signing request and at most one message-signing
\* request is outstanding in any reachable state.
C4_AtMostOneOutstanding ==
    /\ Cardinality(Outstanding("tx")) <= 1
    /\ Cardinality(Outstanding("msg")) <= 1

\* a transaction is verified when it carries the signature of its fee payer
TxVerified(tx) == tx.signer = tx.payer

\* C5: TransactionState enters Signed(tx) only from WaitingForSignature and only
\* with a verified tx.
C5_SignedOnlyVerified ==
    [][(transaction_state'.tag = "Signed" /\ transaction_state' # transaction_state) =>
          (transaction_state = TxWaitingForSignature /\ TxVerified(transaction_state'.tx))]_vars

\* the send_transaction calls made by task id
Submits(id) == {i \in DOMAIN network : network[i].task = id}

\* C6: every entry into Signed(tx) is followed, after the sleep, by exactly one
\* send_transaction(tx) call, and there is no call without such an entry: a task
\* enters Signed once, has made no call while it sleeps and exactly one from then
\* on, whatever the outcome of the call.
C6_SubmitExactlyOnce ==
    /\ \A i \in DOMAIN network :
          \E j \in DOMAIN hist.entered : hist.entered[j] = network[i]
    /\ \A j, k \in DOMAIN hist.entered :
          hist.entered[j].task = hist.entered[k].task => j = k
    /\ \A j \in DOMAIN hist.entered :
          Cardinality(Submits(hist.entered[j].task)) =
              IF \E t \in tasks : t.id = hist.entered[j].task /\ t.pc = "sleeping"
              THEN 0 ELSE 1
    /\ \A t \in tasks :
          (t.kind = "tx" /\ t.pc = "start") =>
              /\ Submits(t.id) = {}
              /\ \A j \in DOMAIN hist.entered : hist.entered[j].task # t.id

\* C6 witness: a submission was rejected, its task has ended, and the endpoint has
\* received exactly one call.
C6_Witness ==
    /\ last.op = "TxTaskResult"
    /\ last.note = "blockhash expired"
    /\ tasks = {}
    /\ Len(network) = 1

\* the task with this id has entered Signed and its submission has not completed
InFlight(id) == \E t \in tasks : t.id = id /\ t.kind = "tx" /\ t.pc # "start"

\* C7: every entry into Signed is followed by the completion of its submission;
\* the completing step sets TransactionState to None when the endpoint accepted
\* and to Error(reason) when it rejected with reason; Signed does not last.
C7_SignedIsTransient ==
    /\ \A id \in 1..MaxEvents : InFlight(id) ~> ~InFlight(id)
    /\ (transaction_state.tag = "Signed") ~> (transaction_state.tag # "Signed")
    /\ [][\A t \in tasks :
             (t.kind = "tx" /\ t.pc = "sending" /\ Steps(t)) =>
                 /\ last'.op = "TxTaskResult" /\ last'.task = t.id
                 /\ transaction_state' =
                        IF last'.note = "accepted" THEN TxNone ELSE TxError(last'.note)]_vars

\* C7 witness: the endpoint rejected a submission and TransactionState carries its
\* reason.
C7_Witness ==
    /\ last.op = "TxTaskResult"
    /\ last.note \in RejectReasons
    /\ transaction_state = TxError(last.note)

\* the text fails base58 decoding or binary deserialisation
Undecodable(text) ==
    \/ ~Bs58Decode(text).ok
    \/ ~BincodeDeserializeTx(Bs58Decode(text).val).ok

\* the error of the stage that failed
DecodeFailure(text) ==
    IF ~Bs58Decode(text).ok THEN Bs58Decode(text).err
    ELSE BincodeDeserializeTx(Bs58Decode(text).val).err

C9_NoMessageAvailable ==
    [][(Receiving("SignedMessage")
          /\ (message_state.tag # "WaitingForSignature" \/ wallet_state.tag # "Pubkey")) =>
          /\ message_state' = MsgError("no message available")
          /\ tasks' = tasks
          /\ consumer' = "listening"]_vars

\* C9 witness: the effect of Hero has run, no wallet is connected, a SignedMessage
\* event was handled, and MessageState is now the error; the consumer listens.
C9_Witness ==
    /\ last.op = "HandleSignedMessage"
    /\ last.note = "no_message"
    /\ message_state = MsgError("no message available")
    /\ wallet_state = WalletNone
    /\ hero.mounted /\ ~hero.effect
    /\ consumer = "listening"

\* the handler, with WalletIdentity k and "hello world" awaited, spawned a task for
\* a signature made by the key pair of k over the dispatched encoding
ValidPending(k) ==
    \E t \in tasks :
        /\ t.kind = "msg"
        /\ t.pubkey = k
        /\ t.message = HelloWorld
        /\ t.signature = SignatureText(k, BincodeSerializeStr(HelloWorld))

\* C10: with WalletIdentity k and message m awaited, handling a SignedMessage
\* event whose signature was made by the key pair of k over the dispatched
\* encoding of m leads to MessageState = Signed(m, sig), sig being the 64 decoded
\* bytes.
C10_ValidSignatureLeadsToSigned ==
    \A k \in Keys :
        ValidPending(k) ~>
            (message_state =
                MsgSigned(HelloWorld, SignBytes(k, BincodeSerializeStr(HelloWorld))))

\* C10 witness: the verification task has recorded the signature.
C10_Witness ==
    /\ last.op = "MsgTaskFinish"
    /\ message_state.tag = "Signed"
    /\ message_state.sig.len = SIGNATURE_BYTES
    /\ message_state.sig.signer = wallet_state.pubkey

\* the signature text of a verification task is not base58, or decodes to a
\* number of bytes other than 64
MalformedSig(t) ==
    /\ t.kind = "msg"
    /\ (~t.signature.b58ok \/ t.signature.bytes.len # SIGNATURE_BYTES)

\* the error signature decoding gives for such a text
SigDecodeError(text) ==
    IF ~text.b58ok THEN "provided string contained invalid character"
    ELSE "could not parse vec as byte array"

\* C11: a SignedMessage event handled with a message awaited and an identity set,
\* whose payload is not base58 or does not decode to exactly 64 bytes, makes
\* MessageState Error(the decoding error): the step of its task that decodes sets
\* the error and ends the task, so that it never sets Signed, and that step is
\* taken.
C11_MalformedSignatureIsError ==
    /\ [][\A t \in tasks :
             (MalformedSig(t) /\ Steps(t)) =>
                 /\ message_state' = MsgError(SigDecodeError(t.signature))
                 /\ \A u \in tasks' : u.id # t.id]_vars
    /\ \A id \in 1..MaxEvents :
          (\E t \in tasks : t.id = id /\ MalformedSig(t)) ~>
              (message_state.tag = "Error" /\ \A u \in tasks : u.id # id)

\* C11 witness: with an identity set, the task of a 63-byte signature has ended
\* in the length error.
C11_Witness ==
    /\ last.op = "MsgTaskStart"
    /\ last.note = "decode_failed"
    /\ wallet_state.tag = "Pubkey"
    /\ message_state = MsgError("could not parse vec as byte array")

\* the text is a well-formed 64-byte signature that does not verify over the
\* awaited message under the identity
ForgedFor(text, ms, ws) ==
    /\ ms.tag = "WaitingForSignature" /\ ws.tag = "Pubkey"
    /\ text.b58ok /\ text.bytes.len = SIGNATURE_BYTES
    /\ ~SigVerify(text.bytes, ws.pubkey, BincodeSerializeStr(ms.message))

\* C12: neither the handling of a SignedMessage event that carries a well-formed
\* 64-byte signature failing verification, nor the step of the task spawned for
\* it, changes WalletIdentity, TransactionState or MessageState; the task ends
\* without recording an Error.
C12_VerifyFailureChangesNothing ==
    [][/\ (Receiving("SignedMessage")
             /\ ForgedFor(Head(queue).payload, message_state, wallet_state)) =>
                 sigVars' = sigVars
       /\ \A t \in tasks :
             (Forged(t) /\ Steps(t)) =>
                 (sigVars' = sigVars /\ \A u \in tasks' : u.id # t.id)]_vars

\* C12 witness: the task of a signature made by another key has ended; the message
\* still awaits its signature, the identity and the transaction slot are as before.
C12_Witness ==
    /\ last.op = "MsgTaskStart"
    /\ last.note = "verify_failed"
    /\ tasks = {}
    /\ wallet_state.tag = "Pubkey"
    /\ transaction_state = TxNone
    /\ message_state = MsgWaitingForSignature(HelloWorld)

\* C13: the consumer handles the events in the order of the send_msg_from_ffi
\* calls, whichever callbacks made them: the k-th event handled is the one of the
\* k-th call, the events still queued are those of the following calls in order,
\* and every call accounts for one event, handled or queued (none merged).
C13_HandledInEnqueueOrder ==
    /\ \A i \in DOMAIN hist.handled : hist.handled[i].seq = i
    /\ \A i \in DOMAIN queue : queue[i].seq = Len(hist.handled) + i
    /\ Len(hist.handled) + Len(queue) = hist.sent

\* C13 witness: two callbacks enqueued an Identity event and then a SignedMessage
\* event before the consumer took the first; both have been handled.
C13_Witness ==
    /\ Len(hist.handled) = 2
    /\ hist.handled[1].waiting = 1
    /\ wallet_state.tag = "Pubkey"
    /\ last.op = "HandleSignedMessage"

\* the event of the n-th send_msg_from_ffi call has been handled
HandledSeq(n) == \E i \in DOMAIN hist.handled : hist.handled[i].seq = n

\* C14: with the queue initialised, every send_msg_from_ffi call appends its event
\* whatever the queue holds and whether or not the consumer listens yet, the call
\* is possible in every state, no event is handled twice, and the event of every
\* call is eventually handled.
C14_EveryEventHandledOnce ==
    /\ [][hist'.sent # hist.sent =>
             /\ Len(queue') = Len(queue) + 1
             /\ queue'[Len(queue')].seq = hist'.sent]_vars
    /\ [](hist.sent < MaxEvents => ENABLED Java_sendPublicKey)
    /\ [](\A i, j \in DOMAIN hist.handled :
             hist.handled[i].seq = hist.handled[j].seq => i = j)
    /\ \A n \in 1..MaxEvents : (hist.sent >= n) ~> HandledSeq(n)

\* C14 witness: two events were sent before the consumer began to listen, and both
\* have been handled.
C14_Witness ==
    /\ hist.listenAt = 2
    /\ HandledSeq(1) /\ HandledSeq(2)
    /\ queue = <<>>

\* C15: the first run of init_ipc_channel installs the queue; a run that finds it
\* installed ends in the panic of `expect` and leaves the installed halves, the
\* events they hold and the consumer as they were; no second installation is
\* ever made.
C15_InitExactlyOnce ==
    /\ [][hist'.mains # hist.mains =>
             IF TX = "set"
             THEN /\ panic' = "initialization of ffi sender just once."
                  /\ TX' = TX /\ queue' = queue /\ consumer' = consumer
             ELSE panic' = "" /\ TX' = "set"]_vars
    /\ [](hist.mains >= 2 => panic # "")

\* C15 witness: init_ipc_channel ran a second time while an event was queued; the
\* call panicked, the queue and the event are still there.
C15_Witness ==
    /\ hist.mains = 2
    /\ panic = "initialization of ffi sender just once."
    /\ TX = "set"
    /\ queue # <<>>

\* the event of the m-th call was malformed and has been handled
BadHandled(m) ==
    \E i \in DOMAIN hist.handled : hist.handled[i].seq = m /\ hist.handled[i].bad

\* C16: the step that handles a malformed event (text that is not base58, bytes
\* that are no transaction, a signature or a public key of the wrong length)
\* leaves the consumer listening and raises no panic; a listening consumer can
\* always take the event at the head of the queue; and every event enqueued
\* after a malformed one is handled too.
C16_MalformedNeverStopsConsumer ==
    /\ [][(consumer = "listening" /\ queue # <<>> /\ Malformed(Head(queue))
              /\ queue' = Tail(queue)) =>
                 (consumer' = "listening" /\ panic' = "")]_vars
    /\ []((consumer = "listening" /\ queue # <<>>) =>
             ENABLED (HandlePubkey \/ HandleSignedTransaction \/ HandleSignedMessage))
    /\ \A m, n \in 1..MaxEvents :
          (m < n /\ BadHandled(m) /\ hist.sent >= n) ~> HandledSeq(n)

\* C16 witness: a malformed event was handled first, and the Identity event sent
\* after it has been handled and has set the identity.
C16_Witness ==
    /\ Len(hist.handled) = 2
    /\ hist.handled[1].bad
    /\ last = Step("HandlePubkey", 0, "set")
    /\ consumer = "listening"
    /\ panic = ""

\* the text is the base58 form of the 32 bytes of a public key
DecodesToKey(text) == text.b58ok /\ text.bytes.len = PUBKEY_BYTES

\* C17: WalletIdentity changes only in the step in which the consumer handles an
\* Identity event whose payload decodes to a public key, and every such step
\* leaves it equal to the decoded key, whatever it was before.
C17_IdentityOnlyFromIdentityEvent ==
    [][/\ (wallet_state' # wallet_state) =>
              (Receiving("Pubkey") /\ DecodesToKey(Head(queue).payload))
       /\ (Receiving("Pubkey") /\ DecodesToKey(Head(queue).payload)) =>
              wallet_state' = WalletPubkey(Head(queue).payload.bytes.key)]_vars

\* C17 witness: a transaction was built for K1, then an Identity event for K2 was
\* handled: the identity is K2.
C17_Witness ==
    /\ last = Step("HandlePubkey", 0, "set")
    /\ wallet_state = WalletPubkey("K2")
    /\ hero.transaction.tag = "Ok"
    /\ hero.transaction.tx.payer = "K1"

\* C18: the step that handles an Identity event whose payload does not decode to
\* a public key leaves WalletIdentity, TransactionState and MessageState as they
\* were, re-runs nothing in Hero and spawns nothing.
C18_BadIdentityChangesNothing ==
    [][(Receiving("Pubkey") /\ ~DecodesToKey(Head(queue).payload)) =>
          (sigVars' = sigVars /\ hero' = hero /\ tasks' = tasks)]_vars

\* C18 witness: with identity K1 set and "hello world" awaited, an Identity event
\* with an undecodable payload was handled and both are as before.
C18_Witness ==
    /\ last = Step("HandlePubkey", 0, "ignored")
    /\ wallet_state = WalletPubkey("K1")
    /\ message_state = MsgWaitingForSignature(HelloWorld)

\* the step is the first poll of a task the consumer has spawned: the end of the
\* handling of its event
FirstPoll(kind) == \E t \in tasks : t.kind = kind /\ t.pc = "start" /\ Steps(t)

\* C19: a slot that awaits a signature is changed only by the consumer handling
\* an event of its kind (the handler and the first poll of the task it spawns),
\* or after the consumer has handled one since the latest request for that slot
\* was issued: no other step takes TransactionState out of WaitingForSignature
\* or MessageState out of WaitingForSignature(text).
C19_AwaitingUntilAnswered ==
    [][/\ (transaction_state = TxWaitingForSignature
             /\ transaction_state' # transaction_state) =>
                 (hist.txSeen \/ Receiving("SignedTransaction") \/ FirstPoll("tx"))
       /\ (message_state.tag = "WaitingForSignature"
             /\ message_state' # message_state) =>
                 (hist.msgSeen \/ Receiving("SignedMessage") \/ FirstPoll("msg"))]_vars

\* the program state of InitConnected, as reached from process start
Connected ==
    /\ consumer = "listening" /\ queue = <<>> /\ tasks = {} /\ host = {}
    /\ wallet_state = WalletPubkey("K1")
    /\ transaction_state = TxNone
    /\ message_state = MsgWaitingForSignature(HelloWorld)
    /\ hero = [mounted |-> TRUE, effect |-> FALSE, fut |-> Fut("idle", ""),
               transaction |-> [tag |-> "Ok", tx |-> Tx("K1", 1, "")]]

\* C20: a step that changes MessageState from Signed(text, signature) sets it to
\* WaitingForSignature: no other change of a Signed message is made, in
\* particular not by the handling of a further SignedMessage event.
C20_SignedUntilNewRequest ==
    [][(message_state.tag = "Signed" /\ message_state' # message_state) =>
          message_state'.tag = "WaitingForSignature"]_vars

\* C21: TransactionState = Error(r), r the reason a submission was rejected with,
\* is changed only by the dispatch of a new transaction-signing request (to
\* WaitingForSignature): no bridge event and no continuation changes it.
C21_SubmitErrorUntilNewRequest ==
    [][(transaction_state.tag = "Error" /\ transaction_state.err \in RejectReasons
          /\ transaction_state' # transaction_state) =>
             (transaction_state' = TxWaitingForSignature /\ hist'.txReq # hist.txReq)]_vars

\* the latest dispatched message request is at the signer, unanswered, and
\* MessageState is as its dispatch left it
LatestMessageAwaited ==
    /\ message_state.tag = "WaitingForSignature"
    /\ \E r \in host : r.kind = "msg" /\ r.id = hist.msgReq

\* C22: when a verification task whose signature answered a message request is
\* through its delay after a newer message request was dispatched (which still
\* awaits its signature), its step leaves MessageState as the newer request made
\* it: the verified result of the superseded request is not recorded.
C22_SupersededResultDiscarded ==
    [][\A t \in tasks :
          (t.kind = "msg" /\ t.pc = "sleeping" /\ Steps(t)
             /\ t.req # 0 /\ t.req # hist.msgReq /\ LatestMessageAwaited) =>
                 message_state' = message_state]_vars

\* C23: a dispatch of a transaction-signing request that does not reach the host
\* and raises no panic (the activity reference is missing, or the JNI call
\* returns an error) ends with TransactionState = Error(reason).
C23_DispatchFailureIsError ==
    [][(hist'.txReq # hist.txReq /\ host' = host /\ panic' = panic) =>
          transaction_state'.tag = "Error"]_vars

\* C24: no UI action that calls a dispatch function raises a panic, whatever
\* host references are cached, and with the activity reference missing no host
\* call is made.
C24_DispatchNeverFaults ==
    [][hist'.clicks # hist.clicks =>
          (panic' = panic /\ (WRY_ACTIVITY = 0 => host' = host))]_vars

\* a step that is one whole call of op on the wallet
MwaCalled(op) ==
    /\ mwa'.calls = mwa.calls + 1
    /\ mwa'.running = mwa.running
    /\ mwa'.done.op = op

\* C25: a call of sign_message on the host-delegated signer makes exactly one
\* host request, returns a status (not an error, not a signature) and changes
\* neither the connection state nor the cached public key.
C25_SignOnlyInitiates ==
    [][MwaCalled("sign_message") =>
          /\ host \subseteq host' /\ Cardinality(host' \ host) = 1
          /\ mwa'.done.ret.ok
          /\ mwa'.state = mwa.state
          /\ mwa'.current_pubkey = mwa.current_pubkey]_vars

\* what identify and is_available must give on the wallet cells m
IdentifyAgrees(m) ==
    /\ m.state.tag = "Connected" => get_public_key(m) = Ok(PubkeyText(m.state.pubkey))
    /\ m.state.tag # "Connected" => ~get_public_key(m).ok
    /\ is_available(m) \in BOOLEAN
    /\ is_available(m) = get_public_key(m).ok

\* C26: in every state of the wallet, the one it is in and every value of the
\* state cell, get_public_key gives the connected key exactly when the state is
\* Connected(pk) and an error otherwise, is_available is true exactly when
\* get_public_key succeeds, and a call returns what the state it ran in gives.
C26_IdentifyExactlyWhenConnected ==
    /\ [](IdentifyAgrees(mwa) /\ \A st \in MwaStates : IdentifyAgrees([mwa EXCEPT !.state = st]))
    /\ [][/\ MwaCalled("get_public_key") => mwa'.done.ret = get_public_key(mwa)
          /\ MwaCalled("is_available") => mwa'.done.ret = (mwa.state.tag = "Connected")]_vars

\* identify has returned the key of a connected wallet
C26_Witness ==
    /\ mwa.done.op = "get_public_key"
    /\ mwa.done.ret = Ok(PubkeyText("K2"))
    /\ mwa.prev.op = "set_connected"

\* the wallet after its latest call, with no call in progress
MwaSettled(op) == mwa.running = {} /\ mwa.done.op = op

\* C27: with one caller at a time, after set_connected(pk) the state is
\* Connected(pk) and identify gives pk; after disconnect the state is
\* Disconnected, the cached key is none, identify fails and is_available is
\* false; the state cell is written only by set_connected and disconnect.
C27_SetConnectedAndDisconnect ==
    /\ [](/\ MwaSettled("set_connected") =>
                /\ mwa.state = MwaConnected(mwa.done.arg)
                /\ mwa.current_pubkey = mwa.done.arg
                /\ get_public_key(mwa) = Ok(PubkeyText(mwa.done.arg))
                /\ is_available(mwa)
          /\ MwaSettled("disconnect") =>
                /\ mwa.state = MwaDisconnected
                /\ mwa.current_pubkey = "None"
                /\ ~get_public_key(mwa).ok
                /\ ~is_available(mwa))
    /\ [][/\ (mwa'.state # mwa.state /\ mwa'.state.tag = "Connected") =>
                \E c \in mwa.running :
                    c.op = "set_connected" /\ mwa'.state = MwaConnected(c.pubkey)
          /\ (mwa'.state # mwa.state /\ mwa'.state.tag # "Connected") =>
                /\ mwa'.state = MwaDisconnected
                /\ \E c \in mwa'.running : c.op = "disconnect"
          /\ (mwa'.current_pubkey # mwa.current_pubkey /\ mwa'.current_pubkey # "None") =>
                \E c \in mwa'.running :
                    c.op = "set_connected" /\ mwa'.current_pubkey = c.pubkey
          /\ (mwa'.current_pubkey # mwa.current_pubkey /\ mwa'.current_pubkey = "None") =>
                \E c \in mwa.running : c.op = "disconnect"]_vars

\* a disconnect has completed on a wallet that set_connected had connected
C27_Witness ==
    /\ MwaSettled("disconnect")
    /\ mwa.prev.op = "set_connected"

\* the run so far is the scenario alone: one identity event, one click on
\* "sign transaction", and the wallet's answer to that request, all handled
EndToEnd ==
    /\ hist.sent = 2 /\ hist.clicks = 1 /\ hist.txReq = 1
    /\ Len(hist.handled) = 2
    /\ hist.handled[1].kind = "Pubkey" /\ ~hist.handled[1].bad
    /\ hist.handled[2].kind = "SignedTransaction" /\ hist.handled[2].req = 1

\* C28: in a run of the scenario alone, the identity is set; once the request
\* is dispatched the state is WaitingForSignature; once the continuation of the
\* answer runs the state is Signed(tx) through the delay and the submission;
\* the transaction is submitted once, and when the submission has succeeded the
\* state is None.
C28_EndToEnd ==
    /\ (hist.sent = 1 /\ hist.clicks = 1 /\ hist.txReq = 1) =>
          /\ wallet_state.tag = "Pubkey"
          /\ transaction_state = TxWaitingForSignature
    /\ EndToEnd =>
          /\ wallet_state.tag = "Pubkey"
          /\ Cardinality(tasks) <= 1
          /\ \A t \in tasks :
                /\ t.tx.signer = wallet_state.pubkey
                /\ t.pc = "start" => transaction_state = TxWaitingForSignature
                /\ t.pc \in {"sleeping", "sending"} => transaction_state = TxSigned(t.tx)
                /\ Len(network) = (IF t.pc = "sending" THEN 1 ELSE 0)
          /\ tasks = {} =>
                /\ Len(network) = 1
                /\ network[1].tx.signer = wallet_state.pubkey
                /\ last.op = "TxTaskResult"
                /\ last.note = "accepted" => transaction_state = TxNone

\* the scenario has run to its end: submitted once, accepted, state None
C28_Witness ==
    /\ EndToEnd
    /\ tasks = {}
    /\ last.note = "accepted"
    /\ transaction_state = TxNone
    /\ Len(network) = 1

\* the consumer takes an event from the queue
TakesEvent == Len(hist'.handled) = Len(hist.handled) + 1

\* C29: once a decodable SignedTransaction event is handled the state is
\* Signed(tx) before the consumer takes the next event: the consumer never takes
\* an event while a submission it spawned has not yet set Signed.
C29_SignedBeforeNextEvent ==
    [][TakesEvent => \A t \in tasks : t.kind = "tx" => t.pc # "start"]_vars

\* a spawned continuation is in its delay or in the network call
Suspended == \E t \in tasks : t.pc \in {"sleeping", "sending"}

\* C30: while a continuation is in its delay or in the network call, the
\* listening consumer can take and handle the event at the head of the queue.
C30_ConsumerNotBlocked ==
    (consumer = "listening" /\ queue # <<>> /\ Suspended) =>
        ENABLED (HandlePubkey \/ HandleSignedTransaction \/ HandleSignedMessage)

\* the consumer has just handled an event while a continuation was suspended
C30_Witness ==
    /\ last.op \in {"HandlePubkey", "HandleSignedTransaction", "HandleSignedMessage"}
    /\ Suspended

\* a click on "sign transaction"
SignTransactionClicked ==
    hist'.clicks = hist.clicks + 1 /\ hist'.button = "sign transaction"

C32_SignedVerifiesUnderCurrentIdentity ==
    message_state.tag = "Signed" =>
        /\ wallet_state.tag = "Pubkey"
        /\ Verified(message_state.sig, wallet_state.pubkey, message_state.message)

\* C33: when no set_connected or disconnect call is in progress, the two cells
\* of the wallet agree: Connected(pk) exactly with Some(pk) cached, and
\* Disconnected exactly with nothing cached.
C33_CellsAgreeAfterCalls ==
    mwa.running = {} =>
        /\ \A pk \in Keys : mwa.state = MwaConnected(pk) <=> mwa.current_pubkey = pk
        /\ mwa.state = MwaDisconnected <=> mwa.current_pubkey = "None"

\* a run of the effect of Hero
EffectRuns == hero.effect /\ hero'.mounted /\ ~hero'.effect

\* C34: a run of the effect sets MessageState from WalletState alone, whatever
\* MessageState held: WaitingForSignature("hello world") with an identity,
\* Error("wallet disconnected") without; and an Identity event that sets
\* WalletState while Hero is shown queues a run of the effect.
C34_EffectFromIdentityAlone ==
    [][/\ EffectRuns =>
             message_state' = IF wallet_state.tag = "Pubkey"
                              THEN MsgWaitingForSignature(HelloWorld)
                              ELSE MsgError("wallet disconnected")
       /\ (TakesEvent /\ last'.op = "HandlePubkey" /\ last'.note = "set" /\ hero.mounted) =>
             (hero'.effect /\ wallet_state'.tag = "Pubkey")]_vars

\* a SignedMessage event handled with no identity left an Error; the Identity
\* event handled next set the identity, and the effect has run over the Error
C34_Witness ==
    /\ Len(hist.handled) = 2
    /\ hist.handled[1].kind = "SignedMessage"
    /\ hist.handled[2].kind = "Pubkey"
    /\ last.op = "HandlePubkey" /\ last.note = "set"
    /\ hero.mounted /\ ~hero.effect
    /\ message_state = MsgWaitingForSignature(HelloWorld)

\* C35: whenever TransactionState is WaitingForSignature an identity is set, and
\* every transaction-signing request at the host is for a transaction whose fee
\* payer is a key that was connected.
C35_WaitingImpliesIdentity ==
    /\ transaction_state = TxWaitingForSignature => wallet_state.tag = "Pubkey"
    /\ \A r \in host :
          r.kind = "tx" => (wallet_state.tag = "Pubkey" /\ r.bytes.tx.payer \in Keys)

\* a request was dispatched for the transaction built for the connected identity
C35_Witness ==
    /\ transaction_state = TxWaitingForSignature
    /\ hist.button = "sign transaction"
    /\ wallet_state.tag = "Pubkey"
    /\ hero.transaction.tag = "Ok" /\ hero.transaction.tx.payer = wallet_state.pubkey

\* the variants of MsgFromKotlin for the device
UsbKinds ==
    {"UsbDeviceList", "UsbPermissionResult", "UsbDeviceOpened", "UsbDeviceClosed",
     "UsbDataWritten", "UsbDataRead", "UsbError"}

\* the consumer takes a device event from the queue
TakesUsbEvent == TakesEvent /\ Head(queue).kind \in UsbKinds

\* the status text the consumer shows for a device event
StatusFor(ev) ==
    CASE ev.kind = "UsbDeviceList" -> "Device list updated"
      [] ev.kind = "UsbPermissionResult" -> "Permission: " \o ev.payload
      [] ev.kind = "UsbDeviceOpened" -> "Device opened: " \o ev.payload
      [] ev.kind = "UsbDeviceClosed" -> "Device closed: " \o ev.payload
      [] ev.kind = "UsbDataWritten" -> "Data written: " \o ev.payload
      [] ev.kind = "UsbDataRead" -> "Data read: " \o ev.payload
      [] ev.kind = "UsbError" -> "Error: " \o ev.payload

\* C36: handling a device event leaves WalletState, TransactionState and
\* MessageState (and the tasks, the host requests, Hero) as they were; the status
\* text becomes the text for that event; the device list becomes the payload of
\* a device-list event and is left alone by every other step.
C36_UsbEventsTouchDeviceCellsOnly ==
    [][/\ TakesUsbEvent =>
             /\ <<wallet_state, transaction_state, message_state, tasks, host, network, hero>>'
                   = <<wallet_state, transaction_state, message_state, tasks, host, network,
                       hero>>
             /\ usb_status_state' = StatusFor(Head(queue))
             /\ usb_devices_state' = IF Head(queue).kind = "UsbDeviceList"
                                     THEN Head(queue).payload ELSE usb_devices_state
       /\ ~TakesUsbEvent =>
             <<usb_status_state, usb_devices_state>>' = <<usb_status_state, usb_devices_state>>
      ]_vars

\* a device list was handled, then a refused permission
C36_Witness ==
    /\ last.op = "HandleUsbStatus"
    /\ usb_devices_state = "[/dev/bus/usb/001/002]"
    /\ usb_status_state = "Permission: denied"

\* a call of the USB operation-result callback
OperationCallback ==
    /\ hist'.usbCall.n = hist.usbCall.n + 1
    /\ hist'.usbCall.fn = "sendUsbOperationResult"

\* the event the callback is to enqueue for an operation name and a result
OperationEventIs(ev, operation, result) ==
    /\ operation = "open" => (ev.kind = "UsbDeviceOpened" /\ ev.payload = result)
    /\ operation = "close" => (ev.kind = "UsbDeviceClosed" /\ ev.payload = result)
    /\ operation = "write" => (ev.kind = "UsbDataWritten" /\ ev.payload = result)
    /\ operation = "read" => (ev.kind = "UsbDataRead" /\ ev.payload = result)
    /\ operation \notin {"open", "close", "write", "read"} =>
          /\ ev.kind = "UsbError"
          /\ ev.payload = "Unknown operation: " \o operation \o " -> " \o result

\* exactly one event, the one for the arguments of the call, joins the queue
OneOperationEvent ==
    /\ Len(queue') = Len(queue) + 1
    /\ SubSeq(queue', 1, Len(queue)) = queue
    /\ OperationEventIs(queue'[Len(queue')], hist'.usbCall.operation, hist'.usbCall.result)

\* C37 as stated: every call of the operation-result callback enqueues exactly
\* one event, chosen by the operation name and carrying the result.
C37_OneEventPerCall ==
    [][OperationCallback => OneOperationEvent]_vars

\* C37, amended: a call whose two strings can be read, made once the queue
\* exists, enqueues exactly one event, chosen by the operation name and carrying
\* the result; any other call enqueues nothing.
C37_OneEventPerReadableCall ==
    [][OperationCallback =>
          IF hist'.usbCall.read = "ok" /\ TX = "set"
          THEN OneOperationEvent
          ELSE queue' = queue]_vars

\* the callback has enqueued UsbError for an operation name it does not know
C37_Witness ==
    /\ hist.usbCall.fn = "sendUsbOperationResult"
    /\ hist.usbCall.operation = "flush"
    /\ queue # <<>>
    /\ queue[Len(queue)].kind = "UsbError"
    /\ queue[Len(queue)].payload = "Unknown operation: flush -> ok"

\* a call of send_msg_from_ffi made while no channel exists
SendsBeforeInit == hist'.sent = hist.sent + 1 /\ TX = "unset"

\* C38: a call of send_msg_from_ffi made before init_ipc_channel has run raises
\* no panic and changes nothing of the program's state, and the event it carried
\* is never in the queue and never handled, also after the queue is initialised.
C38_EarlyEventDiscarded ==
    /\ [][SendsBeforeInit =>
             /\ panic' = panic /\ TX' = TX /\ queue' = queue /\ consumer' = consumer
             /\ <<sigVars, usbVars, tasks, hero, network>>'
                   = <<sigVars, usbVars, tasks, hero, network>>]_vars
    /\ [](/\ \A i \in DOMAIN queue : queue[i].seq \notin hist.dropped
          /\ \A i \in DOMAIN hist.handled : hist.handled[i].seq \notin hist.dropped)

\* an event was sent before main ran; the queue was then initialised, the event
\* sent after that was handled, and nothing is left in the queue
C38_Witness ==
    /\ hist.dropped = {1}
    /\ TX = "set"
    /\ hist.sent = 2
    /\ Len(hist.handled) = 1 /\ hist.handled[1].seq = 2
    /\ queue = <<>>

\* C39: a cached JavaVM and a cached activity are never replaced, whatever
\* cacheVm and cacheActivityInstance calls follow: the first activity a global
\* reference was made for stays the cached one, and every dispatch that reaches
\* the host passes the cached activity.
C39_FirstWriterWins ==
    [][/\ JVM = "set" => JVM' = JVM
       /\ WRY_ACTIVITY # 0 => WRY_ACTIVITY' = WRY_ACTIVITY
       /\ (WRY_ACTIVITY = 0 /\ hist'.offered # hist.offered) =>
             hist'.offered = {WRY_ACTIVITY'}
       /\ \A r \in host' \ host : r.activity = WRY_ACTIVITY /\ r.activity # 0]_vars

\* cacheActivityInstance was called for activity 1 and later for activity 2:
\* activity 1 is still the cached one, and a dispatch has passed it to the host
C39_Witness ==
    /\ WRY_ACTIVITY = 1
    /\ hist.offered = {1, 2}
    /\ JVM = "set"
    /\ \E r \in host : r.activity = 1

====
